---------------------------- MODULE Spec2Model ----------------------------
(***************************************************************************)
(* Model of the shopping bot: the long-polling update source               *)
(* (telegram.Client.StartPolling), the consumer loop of main, the          *)
(* authorization gate and command router of Bot, and the SQLite-backed     *)
(* list / item / session store of package database.                        *)
(*                                                                         *)
(* The module holds several specifications over one set of variables:      *)
(*   SpecPoll      the poller goroutine and the consumer loop              *)
(*   SpecPollFair  the same, with the scheduling fairness of the two       *)
(*                 goroutines                                              *)
(*   SpecItems     the items relation driven through the methods of        *)
(*                 database.DB                                             *)
(*   SpecSession   the lists and user_sessions relations driven through    *)
(*                 the methods of database.DB                              *)
(*   SpecGate      Bot.handleUpdate on updates from listed and unlisted    *)
(*                 senders, for every allow-list of the bound              *)
(*   SpecScenario  one user sending a fixed script of commands while       *)
(*                 another user works on a list of their own               *)
(*   SpecRace      two bot processes on one database file, each handling   *)
(*                 the same /bought command                                *)
(*   SpecBot       Bot.handleUpdate on every command, with the errors the  *)
(*                 database calls can return                               *)
(*   SpecSet       Bot.handleUpdate on /set commands only                  *)
(*   SpecBought    Bot.handleUpdate on /add, /list and /bought with        *)
(*                 positions of every kind, the clock moving               *)
(*   SpecRefs      Bot.handleUpdate on a database from which lists are     *)
(*                 deleted                                                 *)
(*   SpecFrame     Bot.handleUpdate on the commands that write, for two    *)
(*                 users moving between two lists                          *)
(*   SpecAllowed   Bot.handleUpdate behind the allow-list parsed from a    *)
(*                 value of ALLOWED_USERS                                  *)
(* Each specification leaves the variables of the other parts untouched.   *)
(***************************************************************************)
EXTENDS Integers, Sequences, FiniteSets, TLC

\* ------------------------------------------------------------------ bounds

\* Largest update_id the scripted feed hands out (ids start at 5, so that the
\* feed [5,6,7] then [8] of the specification is one of its behaviours).
MaxUpdateID == 8

\* Longest result array of one getUpdates response.
MaxBatch == 3

UpdateIDs == 5..MaxUpdateID

\* Most rows the items table is given (the AUTOINCREMENT counter stops there).
MaxItems == 2

\* Last second the clock of the store reaches; CURRENT_TIMESTAMP counts seconds.
MaxTime == 1

\* Telegram user ids, list identifiers and item names the actions draw from.
\* Largest number of entries of the allow-list.
MaxAllowed == 2

Users == {1, 2}

ListIDs == {"groceries", "party"}

Names == {"milk", "eggs"}

\* --------------------------------------------------------------- variables

VARIABLES
    \* --- telegram.Client.StartPolling, the goroutine's locals
    currentOffset,    \* var currentOffset int64
    params,           \* params["offset"], the offset the request carries
    result,           \* the part of response.Result the range loop has still to send
    pollerPc,         \* "loop" | "getUpdates" | "send" | "advance"
    \* --- main's consumer loop
    consumerPc,       \* "recv" (blocked in range updates) | "handle" (in handleUpdate)
    consumerU,        \* the update the loop variable u holds, <<>> before the first
    \* --- history of the run (read by the properties only)
    cycle,            \* outcome of the most recent request
    handedInCycle,    \* updates of the most recent response handed to the consumer
    lastResult,       \* response.Result of the most recent decoded response
    lastHanded,       \* <<id>> of the update most recently handed over, <<>> if none
    handedSet,        \* ids handed over so far
    dupHanded,        \* an id was handed over twice
    feedConforms,     \* every response so far was ascending and >= the offset asked
    \* --- the SQLite database behind database.DB
    lists,            \* rows of table lists
    user_sessions,    \* rows of table user_sessions
    items,            \* rows of table items
    itemSeq,          \* sqlite_sequence of items: the largest rowid handed out
    now,              \* the second CURRENT_TIMESTAMP reads
    \* --- history of the calls on database.DB (read by the properties only)
    call,             \* the call the latest step made, its arguments and what it returned
    lastSet,          \* per user: <<L>> of the latest SetCurrentList that succeeded, else <<>>
    \* --- the Bot
    allowedUsers,     \* config.AllowedUsers
    \* --- history of the updates handled (read by the properties only)
    lastMsg,          \* <<m>> for the Message of the update handled latest, <<>> if none
    authorized,       \* <<b>> when handling it called isAuthorized, which returned b
    replies,          \* the SendMessage calls made while handling it, in order
    \* --- scenarios
    transcript,       \* per command of the scripted conversation sent so far: its replies
    racers            \* the /bought handlers in progress in processes sharing the database

pollVars == <<currentOffset, params, result, pollerPc, consumerPc, consumerU,
              cycle, handedInCycle, lastResult, lastHanded, handedSet, dupHanded,
              feedConforms>>

storeVars == <<lists, user_sessions, items, itemSeq, now>>

callVars == <<call, lastSet>>

botVars == <<allowedUsers, lastMsg, authorized, replies>>

scenarioVars == <<transcript, racers>>

nonPollVars == <<storeVars, callVars, botVars, scenarioVars>>

vars == <<pollVars, storeVars, callVars, botVars, scenarioVars>>

\* -------------------------------------------- the database as Open leaves it

InitStore ==
    /\ lists = {}
    /\ user_sessions = {}
    /\ items = {}
    /\ itemSeq = 0
    /\ now = 0

InitCalls ==
    /\ call = [op |-> "none"]
    /\ lastSet = [u \in Users |-> <<>>]
    /\ lastMsg = <<>>
    /\ authorized = <<>>
    /\ replies = <<>>
    /\ transcript = <<>>
    /\ racers = <<>>

\* ALLOWED_USERS is not set: parseAllowedUsers returns the empty slice.
InitConfig == allowedUsers = <<>>

\* ------------------------------------------------------------ update source

\* The elements of a finite set of integers, in ascending order.
RECURSIVE Ascending(_)
Ascending(S) ==
    IF S = {} THEN <<>>
    ELSE LET m == CHOOSE x \in S : \A y \in S : x <= y
         IN  <<m>> \o Ascending(S \ {m})

\* What json.Unmarshal can leave in response.Result, each update named by its
\* update_id. The feed lists updates in ascending order of update_id; whether it
\* also honours the offset of the request is left open (feedConforms records it).
FeedResults ==
    {Ascending(S) : S \in {T \in SUBSET UpdateIDs : Cardinality(T) <= MaxBatch}}

\* The contract of the remote feed: only updates at or after the requested offset,
\* in ascending order of update_id.
Conforms(res, offset) ==
    /\ \A i \in 1..Len(res) : res[i] >= offset
    /\ \A i \in 1..(Len(res) - 1) : res[i] < res[i + 1]

Failures == {"getMethod", "ReadAll", "Unmarshal"}

InitPoll ==
    /\ currentOffset = 0
    /\ params = 0
    /\ result = <<>>
    /\ pollerPc = "loop"
    /\ consumerPc = "recv"
    /\ consumerU = <<>>
    /\ cycle = "none"
    /\ handedInCycle = 0
    /\ lastResult = <<>>
    /\ lastHanded = <<>>
    /\ handedSet = {}
    /\ dupHanded = FALSE
    /\ feedConforms = TRUE

\* for { params.Set("offset", currentOffset); c.getMethod("getUpdates", params)
GetUpdates ==
    /\ pollerPc = "loop"
    /\ params' = currentOffset
    /\ pollerPc' = "getUpdates"
    /\ cycle' = "pending"
    /\ handedInCycle' = 0
    /\ UNCHANGED <<currentOffset, result, consumerPc, consumerU, lastResult,
                   lastHanded, handedSet, dupHanded, feedConforms>>
    /\ UNCHANGED nonPollVars

\* Mutant: the failing branch has no `continue` and the range loop runs over the
\* result of the response decoded before.
CycleFailsFallsThrough(kind) ==
    /\ pollerPc = "getUpdates"
    /\ pollerPc' = IF lastResult = <<>> THEN "loop" ELSE "send"
    /\ result' = lastResult
    /\ cycle' = kind
    /\ UNCHANGED <<currentOffset, params, consumerPc, consumerU,
                   handedInCycle, lastResult, lastHanded, handedSet, dupHanded,
                   feedConforms>>
    /\ UNCHANGED nonPollVars

\* One of the three `continue` branches: the request, the read of the body or the
\* decoding failed.
CycleFails(kind) ==
    /\ pollerPc = "getUpdates"
    /\ pollerPc' = "loop"
    /\ cycle' = kind
    /\ UNCHANGED <<currentOffset, params, result, consumerPc, consumerU,
                   handedInCycle, lastResult, lastHanded, handedSet, dupHanded,
                   feedConforms>>
    /\ UNCHANGED nonPollVars

\* Mutant: a failed request ends the goroutine instead of continuing the loop.
GetMethodErrorReturns ==
    /\ pollerPc = "getUpdates"
    /\ pollerPc' = "returned"
    /\ cycle' = "getMethod"
    /\ UNCHANGED <<currentOffset, params, result, consumerPc, consumerU,
                   handedInCycle, lastResult, lastHanded, handedSet, dupHanded,
                   feedConforms>>
    /\ UNCHANGED nonPollVars

GetMethodError == CycleFails("getMethod")

ReadAllError == CycleFails("ReadAll")

UnmarshalError == CycleFails("Unmarshal")

\* Where the loop goes after a decoded response: response.Ok is logged and not
\* branched on, the range over response.Result follows in either case.
AfterDecode(ok, res) ==
    IF res = <<>> THEN "loop" ELSE "send"

\* The response decoded: ok is response.Ok, res is response.Result.
Decoded(ok, res) ==
    /\ pollerPc = "getUpdates"
    /\ cycle' = IF ok THEN "ok" ELSE "notOk"
    /\ result' = IF AfterDecode(ok, res) = "send" THEN res ELSE <<>>
    /\ pollerPc' = AfterDecode(ok, res)
    /\ lastResult' = res
    /\ feedConforms' = (feedConforms /\ Conforms(res, params))
    /\ UNCHANGED <<currentOffset, params, consumerPc, consumerU, handedInCycle,
                   lastHanded, handedSet, dupHanded>>
    /\ UNCHANGED nonPollVars

\* Mutant: every update gets a goroutine of its own (go bot.handleUpdate(u)), so
\* the loop receives the next update while the last one is still being handled.
HandoffWhileHandling ==
    /\ pollerPc = "send"
    /\ LET u == Head(result)
       IN  /\ consumerU' = <<u>>
           /\ lastHanded' = <<u>>
           /\ dupHanded' = (dupHanded \/ u \in handedSet)
           /\ handedSet' = handedSet \cup {u}
    /\ consumerPc' = "handle"
    /\ pollerPc' = "advance"
    /\ handedInCycle' = handedInCycle + 1
    /\ UNCHANGED <<currentOffset, params, result, cycle, lastResult, feedConforms>>
    /\ UNCHANGED nonPollVars

\* Mutant: the send does not block (select with a default branch): an update
\* the consumer is not ready for is dropped and the loop goes on.
HandoffNonBlocking ==
    /\ pollerPc = "send"
    /\ LET u == Head(result)
       IN  IF consumerPc = "recv"
           THEN /\ consumerU' = <<u>>
                /\ lastHanded' = <<u>>
                /\ dupHanded' = (dupHanded \/ u \in handedSet)
                /\ handedSet' = handedSet \cup {u}
                /\ consumerPc' = "handle"
                /\ handedInCycle' = handedInCycle + 1
           ELSE UNCHANGED <<consumerU, lastHanded, dupHanded, handedSet, consumerPc,
                            handedInCycle>>
    /\ pollerPc' = "advance"
    /\ UNCHANGED <<currentOffset, params, result, cycle, lastResult, feedConforms>>
    /\ UNCHANGED nonPollVars

\* updates <- u meets `for u := range updates`: the channel is unbuffered, so the
\* send and the receive are one step.
Handoff ==
    /\ pollerPc = "send"
    /\ consumerPc = "recv"
    /\ LET u == Head(result)
       IN  /\ consumerU' = <<u>>
           /\ lastHanded' = <<u>>
           /\ dupHanded' = (dupHanded \/ u \in handedSet)
           /\ handedSet' = handedSet \cup {u}
    /\ consumerPc' = "handle"
    /\ pollerPc' = "advance"
    /\ handedInCycle' = handedInCycle + 1
    /\ UNCHANGED <<currentOffset, params, result, cycle, lastResult, feedConforms>>
    /\ UNCHANGED nonPollVars

\* Mutant: the offset is set to the update itself, the + 1 forgotten.
NextOffsetSameUpdate(u) == u

\* Mutant: the offset is never moved.
NextOffsetKept(u) == currentOffset

\* The offset the poller stores after update u was received.
NextOffset(u) == u + 1

\* Mutant: the offset is moved past the whole response after its first update
\* was received (currentOffset = last UpdateID + 1; break), the rest is not sent.
AdvanceOffsetPastBatch ==
    /\ pollerPc = "advance"
    /\ currentOffset' = NextOffset(result[Len(result)])
    /\ result' = <<>>
    /\ pollerPc' = "loop"
    /\ UNCHANGED <<params, consumerPc, consumerU, cycle, handedInCycle, lastResult,
                   lastHanded, handedSet, dupHanded, feedConforms>>
    /\ UNCHANGED nonPollVars

\* currentOffset = u.UpdateID + 1, then the next element of the range, or the
\* next cycle.
AdvanceOffset ==
    /\ pollerPc = "advance"
    /\ currentOffset' = NextOffset(Head(result))
    /\ result' = Tail(result)
    /\ pollerPc' = IF Tail(result) = <<>> THEN "loop" ELSE "send"
    /\ UNCHANGED <<params, consumerPc, consumerU, cycle, handedInCycle, lastResult,
                   lastHanded, handedSet, dupHanded, feedConforms>>
    /\ UNCHANGED nonPollVars

\* bot.handleUpdate(u) returns and the loop goes back to the channel.
HandleUpdateReturns ==
    /\ consumerPc = "handle"
    /\ consumerPc' = "recv"
    /\ UNCHANGED <<currentOffset, params, result, pollerPc, consumerU, cycle,
                   handedInCycle, lastResult, lastHanded, handedSet, dupHanded,
                   feedConforms>>
    /\ UNCHANGED nonPollVars

PollerNext ==
    \/ GetUpdates
    \/ GetMethodError
    \/ ReadAllError
    \/ UnmarshalError
    \/ \E ok \in BOOLEAN, res \in FeedResults : Decoded(ok, res)
    \/ Handoff
    \/ AdvanceOffset

ConsumerNext == HandleUpdateReturns

NextPoll == PollerNext \/ ConsumerNext

Init == InitPoll /\ InitStore /\ InitCalls /\ InitConfig

SpecPoll == Init /\ [][NextPoll]_vars

\* The two goroutines are scheduled fairly and a request that was issued returns.
SpecPollFair == SpecPoll /\ WF_vars(PollerNext) /\ WF_vars(ConsumerNext)

\* ------------------------------------------------------- update source: claims

\* The offset that follows the update most recently handed to the consumer.
OffsetAfterLastHanded == IF lastHanded = <<>> THEN 0 ELSE lastHanded[1] + 1

\* C1: the first request carries offset 0 and every later one the sequence number
\* of the update most recently handed over, plus one; the offset has that value
\* before the next cycle begins; after the batch [5,6,7] the request carries 8.
C1_RequestOffset ==
    /\ pollerPc = "getUpdates" => params = OffsetAfterLastHanded
    /\ pollerPc = "loop" => currentOffset = OffsetAfterLastHanded
    /\ (pollerPc = "getUpdates" /\ lastResult = <<5, 6, 7>>) => params = 8

\* C1 witness: the request after the first batch [5,6,7] is in flight with offset 8.
C1_Witness ==
    /\ pollerPc = "getUpdates"
    /\ lastResult = <<5, 6, 7>>
    /\ handedSet = {5, 6, 7}
    /\ params = 8

\* C2: while the feed keeps its contract, no update is handed over twice.
C2_NoUpdateTwice == feedConforms => ~dupHanded

\* C2 witness: a failed cycle after several updates were handed over by a
\* conforming feed, one of them from a response that followed an earlier batch.
C2_Witness ==
    /\ feedConforms
    /\ cycle \in Failures
    /\ Cardinality(handedSet) >= 3
    /\ Len(lastResult) = 1

\* C3: a cycle whose request, body read or decoding fails hands nothing over and
\* leaves the offset as the failed request carried it, and the request that
\* follows carries that same offset.
C3_FailedCycleIsNoOp ==
    /\ [](cycle \in Failures =>
            /\ pollerPc = "loop"
            /\ handedInCycle = 0
            /\ currentOffset = params)
    /\ [][(cycle \in Failures /\ pollerPc' = "getUpdates") => params' = params]_vars

\* C3 witness: a cycle failed after updates had been handed over.
C3_Witness ==
    /\ cycle \in Failures
    /\ lastHanded = <<7>>
    /\ currentOffset = 8

\* C4 as claimed: a response with ok = false hands nothing over and leaves the
\* offset unchanged, whatever its result holds.
C4_NotOkIsNoOp ==
    cycle = "notOk" =>
        /\ pollerPc = "loop"
        /\ handedInCycle = 0
        /\ currentOffset = params

\* C5: under fair scheduling of the two goroutines another request is always
\* eventually issued.
C5_AlwaysAnotherRequest == []<><<GetUpdates>>_vars

\* C5 witness: a request is in flight after non-empty cycles and an empty one,
\* while the consumer is still handling the last update.
C5_Witness ==
    /\ pollerPc = "getUpdates"
    /\ Cardinality(handedSet) >= 2
    /\ lastResult = <<>>
    /\ consumerPc = "handle"


\* C15: at most one update is being handled at any instant: while the consumer
\* is inside handleUpdate it receives nothing, so the update it holds is the one
\* handed over latest, and it takes the next one only from the head of its loop.
C15_OneCommandAtATime ==
    /\ [](consumerPc = "handle" => consumerU = lastHanded)
    /\ [][consumerPc = "handle" =>
              /\ consumerU' = consumerU
              /\ lastHanded' = lastHanded
              /\ handedInCycle' # handedInCycle + 1]_vars
    /\ [][handedInCycle' = handedInCycle + 1 =>
              /\ consumerPc = "recv"
              /\ consumerPc' = "handle"]_vars

\* The consumer is handling an update while the poller, with the offset already
\* moved past it, waits to send the next one of the batch.
C15_Witness ==
    /\ consumerPc = "handle"
    /\ pollerPc = "send"
    /\ result # <<>>
    /\ Head(result) \notin handedSet
    /\ currentOffset = lastHanded[1] + 1
    /\ handedInCycle >= 1

\* C16: the channel holds nothing: an update leaves the poller in the step in
\* which the consumer takes it. The offset moves only past an update the
\* consumer has received, the loop comes back to the request only when every
\* update of the response was received, and the consumer leaves its receive only
\* with the update the poller is sending.
C16_HandoffBlocks ==
    /\ [](/\ currentOffset # 0 => currentOffset - 1 \in handedSet
          /\ pollerPc = "advance" => lastHanded = <<Head(result)>>
          /\ (pollerPc = "loop" /\ cycle \in {"ok", "notOk"}) =>
                 /\ result = <<>>
                 /\ handedInCycle = Len(lastResult)
                 /\ \A i \in 1..Len(lastResult) : lastResult[i] \in handedSet)
    /\ [][currentOffset' # currentOffset =>
              /\ pollerPc = "advance"
              /\ lastHanded = <<currentOffset' - 1>>]_vars
    /\ [][(consumerPc = "recv" /\ consumerPc' = "handle") =>
              /\ pollerPc = "send"
              /\ pollerPc' = "advance"
              /\ consumerU' = <<Head(result)>>]_vars
    /\ [][(pollerPc = "send" /\ pollerPc' # "send") => consumerPc = "recv"]_vars

\* A batch of three was received whole, one update at a time, and the loop is
\* back at the request with the offset past the last of them.
C16_Witness ==
    /\ pollerPc = "loop"
    /\ cycle = "ok"
    /\ Len(lastResult) = 3
    /\ handedInCycle = 3
    /\ currentOffset = lastResult[3] + 1
    /\ consumerPc = "handle"

\* The poller is inside the range loop over a decoded response that holds a
\* k-th update, and the consumer has not been handed it yet.
Pending(k) ==
    /\ cycle \in {"ok", "notOk"}
    /\ pollerPc \in {"send", "advance"}
    /\ k <= Len(lastResult)
    /\ handedInCycle < k

\* handleUpdate is running on the k-th update of the response.
Handling(k) ==
    /\ k <= Len(lastResult)
    /\ handedInCycle = k
    /\ consumerPc = "handle"
    /\ consumerU = <<lastResult[k]>>

\* C24: every update of a decoded response reaches handleUpdate, once and in
\* the order of the response: what is still to be sent is the tail of the
\* response behind the updates handed over, each hand-over takes the next
\* update of the response, the offset moves only past the update handed over
\* latest, the next request is issued only after the whole response was handed
\* over, and, handlers returning and both goroutines being scheduled, the k-th
\* update of a response is eventually being handled.
C24_EveryUpdateHandledInOrder ==
    /\ [](/\ pollerPc = "send" =>
                result = SubSeq(lastResult, handedInCycle + 1, Len(lastResult))
          /\ pollerPc = "advance" =>
                result = SubSeq(lastResult, handedInCycle, Len(lastResult))
          /\ (pollerPc = "loop" /\ cycle \in {"ok", "notOk"}) =>
                handedInCycle = Len(lastResult))
    /\ [][handedInCycle' = handedInCycle + 1 =>
              /\ handedInCycle' <= Len(lastResult)
              /\ consumerU' = <<lastResult[handedInCycle']>>
              /\ consumerPc' = "handle"]_vars
    /\ [][currentOffset' # currentOffset =>
              /\ handedInCycle >= 1
              /\ currentOffset' = lastResult[handedInCycle] + 1
              /\ lastHanded = <<lastResult[handedInCycle]>>]_vars
    /\ \A k \in 1..MaxBatch : Pending(k) ~> Handling(k)

\* Two responses, [5,6,7] and then [8], were handed over whole, the last
\* handler has returned and the loop is back at the request.
C24_Witness ==
    /\ pollerPc = "loop"
    /\ cycle = "ok"
    /\ lastResult = <<8>>
    /\ handedInCycle = 1
    /\ handedSet = {5, 6, 7, 8}
    /\ consumerPc = "recv"
    /\ consumerU = <<8>>
    /\ currentOffset = 9

\* ------------------------------------------------ the store: tables and SQL

\* A nullable column holds <<>> for NULL and <<v>> for the value v.
Null == <<>>

\* LIMIT of the history query as /history passes it.
HistoryLimit == 10

\* The clock of the store passes to the next second.
Tick ==
    /\ now < MaxTime
    /\ now' = now + 1
    /\ call' = [op |-> "none"]
    /\ UNCHANGED <<lists, user_sessions, items, itemSeq, lastSet, pollVars, botVars,
                 scenarioVars>>

\* --- items

\* Mutant: the row is written with bought_at filled in.
InsertItemAsBought(its, seq, listID, name, addedBy, t) ==
    its \cup {[id |-> seq + 1, list_id |-> listID, name |-> name, created_at |-> t,
               bought_at |-> <<t>>, added_by |-> addedBy, bought_by |-> <<addedBy>>]}

\* INSERT INTO items (list_id, name, added_by) VALUES (?, ?, ?): id from
\* AUTOINCREMENT, created_at from its DEFAULT, bought_at and bought_by NULL.
InsertItem(its, seq, listID, name, addedBy, t) ==
    its \cup {[id |-> seq + 1, list_id |-> listID, name |-> name, created_at |-> t,
               bought_at |-> Null, added_by |-> addedBy, bought_by |-> Null]}

\* Mutant: GetItems without `AND bought_at IS NULL`.
ActiveRowsWithBought(its, listID) ==
    {r \in its : r.list_id = listID}

\* WHERE list_id = ? AND bought_at IS NULL
ActiveRows(its, listID) ==
    {r \in its : r.list_id = listID /\ r.bought_at = Null}

\* WHERE list_id = ? AND bought_at IS NOT NULL
BoughtRows(its, listID) ==
    {r \in its : r.list_id = listID /\ r.bought_at # Null}

CreatedAt(r) == r.created_at

\* Mutant: the history is ordered by the column GetItems orders by.
BoughtAtIsCreatedAt(r) == r.created_at

BoughtAt(r) == r.bought_at[1]

\* ORDER BY <key> DESC: every order of the rows the clause allows. SQL leaves the
\* order of rows with equal keys open, so each of them is a possible result.
OrderByDesc(rows, key) ==
    {o \in [1..Cardinality(rows) -> rows] :
        /\ \A i, j \in 1..Cardinality(rows) : i # j => o[i] # o[j]
        /\ \A i, j \in 1..Cardinality(rows) : i < j => key[o[i]] >= key[o[j]]}

\* The slices GetItems can return for a list.
GetItemsResults(its, listID) ==
    OrderByDesc(ActiveRows(its, listID), [r \in ActiveRows(its, listID) |-> CreatedAt(r)])

\* LIMIT ?
Limit(o, limit) == SubSeq(o, 1, IF Len(o) < limit THEN Len(o) ELSE limit)

\* The slices GetHistory can return for a list.
GetHistoryResults(its, listID, limit) ==
    {Limit(o, limit) :
        o \in OrderByDesc(BoughtRows(its, listID), [r \in BoughtRows(its, listID) |-> BoughtAt(r)])}

\* Mutant: the WHERE clause of MarkBought without `AND bought_at IS NULL`.
MarkBoughtMatchesBoughtToo(its, itemID, listID) ==
    {r \in its : r.id = itemID /\ r.list_id = listID}

\* The rows the UPDATE of MarkBought matches:
\* WHERE id = ? AND list_id = ? AND bought_at IS NULL
MarkBoughtMatches(its, itemID, listID) ==
    {r \in its : r.id = itemID /\ r.list_id = listID /\ r.bought_at = Null}

\* Mutant: the UPDATE writes every row with the id in the list, bought or not.
MarkBoughtUpdateAnyRow(its, itemID, listID, boughtBy, t) ==
    {IF r.id = itemID /\ r.list_id = listID
        THEN [r EXCEPT !.bought_at = <<t>>, !.bought_by = <<boughtBy>>]
        ELSE r : r \in its}

\* UPDATE items SET bought_at = CURRENT_TIMESTAMP, bought_by = ? WHERE ...
MarkBoughtUpdate(its, itemID, listID, boughtBy, t) ==
    {IF r \in MarkBoughtMatches(its, itemID, listID)
        THEN [r EXCEPT !.bought_at = <<t>>, !.bought_by = <<boughtBy>>]
        ELSE r : r \in its}

\* The rows DELETE FROM items WHERE id = ? AND list_id = ? removes.
DeleteItemMatches(its, itemID, listID) ==
    {r \in its : r.id = itemID /\ r.list_id = listID}

\* DB.AddItem: an error of Exec is returned and nothing is inserted.
AddItem(listID, name, addedBy, execErr) ==
    /\ itemSeq < MaxItems
    /\ items' = IF execErr THEN items
                ELSE InsertItem(items, itemSeq, listID, name, addedBy, now)
    /\ itemSeq' = IF execErr THEN itemSeq ELSE itemSeq + 1
    /\ call' = [op |-> "AddItem", listID |-> listID, err |-> execErr]
    /\ UNCHANGED <<lists, user_sessions, now, lastSet, pollVars, botVars,
                 scenarioVars>>

\* DB.MarkBought: an error of Exec, or zero rows affected, is an error.
MarkBought(itemID, listID, boughtBy, execErr) ==
    /\ items' = IF execErr THEN items
                ELSE MarkBoughtUpdate(items, itemID, listID, boughtBy, now)
    /\ call' = [op |-> "MarkBought", itemID |-> itemID, listID |-> listID,
                err |-> (execErr \/ MarkBoughtMatches(items, itemID, listID) = {})]
    /\ UNCHANGED <<lists, user_sessions, itemSeq, now, lastSet, pollVars, botVars,
                 scenarioVars>>

\* DB.DeleteItem: an error of Exec, or zero rows affected, is an error.
DeleteItem(itemID, listID, execErr) ==
    /\ items' = IF execErr THEN items
                ELSE items \ DeleteItemMatches(items, itemID, listID)
    /\ call' = [op |-> "DeleteItem",
                err |-> (execErr \/ DeleteItemMatches(items, itemID, listID) = {})]
    /\ UNCHANGED <<lists, user_sessions, itemSeq, now, lastSet, pollVars, botVars,
                 scenarioVars>>

\* Item ids a caller may pass: those handed out and those not handed out yet.
ItemIDs == 1..MaxItems

\* The (name, added_by) pairs the adds draw from: every add after the first is
\* an add of a duplicate name.
AddInputs == {<<"milk", 1>>}

\* GetItems and GetHistory read and change nothing: what they return in a state
\* is GetItemsResults and GetHistoryResults of that state.
NextItems ==
    \/ Tick
    \/ \E l \in ListIDs, a \in AddInputs, e \in BOOLEAN : AddItem(l, a[1], a[2], e)
    \/ \E i \in ItemIDs, l \in ListIDs, u \in Users, e \in BOOLEAN :
          MarkBought(i, l, u, e)
    \/ \E i \in ItemIDs, l \in ListIDs, e \in BOOLEAN : DeleteItem(i, l, e)

SpecItems == Init /\ [][NextItems]_vars

\* --- lists and user_sessions

\* INSERT INTO lists (id, created_by) VALUES (?, ?): created_at from its DEFAULT.
InsertList(ls, listID, createdBy, t) ==
    ls \cup {[id |-> listID, created_at |-> t, created_by |-> createdBy]}

\* Mutant: the count is always 0, every list looks new.
CountListsAlwaysZero(ls, listID) == 0

\* SELECT COUNT(*) FROM lists WHERE id = ?
CountLists(ls, listID) == Cardinality({r \in ls : r.id = listID})

\* Mutant: the conflict branch updates without regard to the user: every row of
\* the table is given the list.
UpsertSessionEveryRow(ss, userID, listID, t) ==
    IF \E r \in ss : r.user_id = userID
    THEN {[r EXCEPT !.current_list_id = <<listID>>, !.last_updated = t] : r \in ss}
    ELSE ss \cup {[user_id |-> userID, current_list_id |-> <<listID>>,
                   last_updated |-> t]}

\* Mutant: ON CONFLICT(user_id) DO NOTHING, an existing row keeps its list.
UpsertSessionKeepsRow(ss, userID, listID, t) ==
    IF \E r \in ss : r.user_id = userID THEN ss
    ELSE ss \cup {[user_id |-> userID, current_list_id |-> <<listID>>,
                   last_updated |-> t]}

\* INSERT INTO user_sessions ... ON CONFLICT(user_id) DO UPDATE SET
\* current_list_id = excluded.current_list_id, last_updated = CURRENT_TIMESTAMP
UpsertSession(ss, userID, listID, t) ==
    IF \E r \in ss : r.user_id = userID
    THEN {IF r.user_id = userID
             THEN [r EXCEPT !.current_list_id = <<listID>>, !.last_updated = t]
             ELSE r : r \in ss}
    ELSE ss \cup {[user_id |-> userID, current_list_id |-> <<listID>>,
                   last_updated |-> t]}

\* What DB.GetCurrentList returns, as [listID, err]. Scan fails when the query
\* fails or finds no row; either way the method returns "" and a nil error. A
\* row whose current_list_id is NULL gives "" as well.
GetCurrentListReturns(ss, userID, queryErr) ==
    LET rows == {r \in ss : r.user_id = userID}
    IN  IF queryErr \/ rows = {} THEN [listID |-> "", err |-> FALSE]
        ELSE LET row == CHOOSE r \in rows : TRUE
             IN  IF row.current_list_id = Null THEN [listID |-> "", err |-> FALSE]
                 ELSE [listID |-> row.current_list_id[1], err |-> FALSE]

\* DB.CreateList: the primary key on lists.id makes the INSERT of an existing id
\* fail.
CreateList(listID, createdBy, execErr) ==
    LET fails == execErr \/ CountLists(lists, listID) > 0
    IN  /\ lists' = IF fails THEN lists ELSE InsertList(lists, listID, createdBy, now)
        /\ call' = [op |-> "CreateList", listID |-> listID, err |-> fails]
        /\ UNCHANGED <<user_sessions, items, itemSeq, now, lastSet, pollVars, botVars,
                 scenarioVars>>

\* DB.ListExists
ListExists(listID, queryErr) ==
    /\ call' = [op |-> "ListExists", listID |-> listID, err |-> queryErr,
                ret |-> (~queryErr /\ CountLists(lists, listID) > 0)]
    /\ UNCHANGED <<storeVars, lastSet, pollVars, botVars,
                 scenarioVars>>

\* DB.SetCurrentList
SetCurrentList(userID, listID, execErr) ==
    /\ user_sessions' = IF execErr THEN user_sessions
                        ELSE UpsertSession(user_sessions, userID, listID, now)
    /\ lastSet' = IF execErr THEN lastSet ELSE [lastSet EXCEPT ![userID] = <<listID>>]
    /\ call' = [op |-> "SetCurrentList", userID |-> userID, listID |-> listID,
                err |-> execErr,
                before |-> GetCurrentListReturns(user_sessions, userID, FALSE).listID]
    /\ UNCHANGED <<lists, items, itemSeq, now, pollVars, botVars,
                 scenarioVars>>

\* DB.GetCurrentList
GetCurrentList(userID, queryErr) ==
    /\ call' = [op |-> "GetCurrentList", userID |-> userID, queryErr |-> queryErr,
                ret |-> GetCurrentListReturns(user_sessions, userID, queryErr)]
    /\ UNCHANGED <<storeVars, lastSet, pollVars, botVars,
                 scenarioVars>>

\* A database file left by an earlier run: no session rows, or the row of one
\* user whose current_list_id is NULL (the column is nullable and its foreign
\* key is ON DELETE SET NULL).
InitSessionStore ==
    /\ lists = {}
    /\ items = {}
    /\ itemSeq = 0
    /\ now = 0
    /\ user_sessions \in
          {{}} \cup {{[user_id |-> u, current_list_id |-> Null, last_updated |-> 0]} :
                      u \in Users}

NextSession ==
    \/ Tick
    \/ \E l \in ListIDs, u \in Users, e \in BOOLEAN : CreateList(l, u, e)
    \/ \E l \in ListIDs, e \in BOOLEAN : ListExists(l, e)
    \/ \E u \in Users, l \in ListIDs, e \in BOOLEAN : SetCurrentList(u, l, e)
    \/ \E u \in Users, e \in BOOLEAN : GetCurrentList(u, e)

InitSession == InitPoll /\ InitSessionStore /\ InitCalls /\ InitConfig

SpecSession == InitSession /\ [][NextSession]_vars

\* ----------------------------------------------------------- the store: claims

\* C8: for a query the database answers, GetCurrentList(u) returns "" while no
\* SetCurrentList(u, _) has succeeded (no row, or a row whose reference is NULL)
\* and otherwise the list of the latest SetCurrentList(u, L) that succeeded; no
\* user has more than one session row.
C8_CurrentListIsLastSet ==
    /\ \A u \in Users :
          /\ GetCurrentListReturns(user_sessions, u, FALSE) =
                [listID |-> IF lastSet[u] = <<>> THEN "" ELSE lastSet[u][1],
                 err |-> FALSE]
          /\ Cardinality({r \in user_sessions : r.user_id = u}) <= 1
    /\ (call.op = "GetCurrentList" /\ ~call.queryErr) =>
          call.ret.listID =
             IF lastSet[call.userID] = <<>> THEN "" ELSE lastSet[call.userID][1]

\* C8 witness: a user whose session named groceries has just set party and reads
\* party back, while the other user's row holds NULL.
C8_Witness ==
    /\ call.op = "SetCurrentList"
    /\ ~call.err
    /\ call.before = "groceries"
    /\ call.listID = "party"
    /\ GetCurrentListReturns(user_sessions, call.userID, FALSE).listID = "party"
    /\ \E r \in user_sessions : r.user_id # call.userID /\ r.current_list_id = Null

\* C9 as claimed: after an AddItem that succeeded, every slice GetItems can
\* return for the list holds one more entry than before, the new row first and
\* the rest most recent first.
C9_NewItemFirst ==
    [][itemSeq' = itemSeq + 1 =>
          \A o \in GetItemsResults(items', call'.listID) :
             /\ Len(o) = Cardinality(ActiveRows(items, call'.listID)) + 1
             /\ o[1].id = itemSeq'
             /\ \A i, j \in 1..Len(o) : i < j => o[i].id > o[j].id]_vars

\* C10: MarkBought succeeds only on a row that exists, is of the given list and
\* is active; in every other case, and when Exec fails, it returns an error and
\* leaves the items table as it was.
C10_MarkBoughtConditional ==
    [][call'.op = "MarkBought" =>
          LET target == {r \in items : /\ r.id = call'.itemID
                                       /\ r.list_id = call'.listID
                                       /\ r.bought_at = Null}
          IN  /\ ~call'.err => target # {}
              /\ target = {} => call'.err
              /\ call'.err => items' = items]_vars

\* C10 witness: MarkBought was repeated, in a later second, on an item already
\* bought, and returned an error.
C10_Witness ==
    /\ call.op = "MarkBought"
    /\ call.err
    /\ \E r \in items : /\ r.id = call.itemID
                        /\ r.list_id = call.listID
                        /\ r.bought_at # Null
                        /\ r.bought_at[1] < now
    /\ \E r \in items : r.list_id # call.listID


\* C11: a bought row stays bought: after any step every row with its id is that
\* same row, bought_at and bought_by included, and no slice GetItems can return
\* for any list holds a row with its id.
C11_PurchaseIsOneWay ==
    [][\A r \in items : r.bought_at # Null =>
          /\ \A r2 \in items' : r2.id = r.id => r2 = r
          /\ \A l \in ListIDs : \A o \in GetItemsResults(items', l) :
                \A i \in 1..Len(o) : o[i].id # r.id]_vars

\* MarkBought was called again, a second later, on a row user 2 had bought,
\* while the list holds an active row as well.
C11_Witness ==
    /\ call.op = "MarkBought"
    /\ now = 1
    /\ \E r \in items :
          /\ r.id = call.itemID
          /\ r.list_id = call.listID
          /\ r.bought_at = <<0>>
          /\ r.bought_by = <<2>>
    /\ \E r \in items : r.list_id = call.listID /\ r.bought_at = Null

\* The rows of list l that are bought.
Purchased(l) == {r \in items : r.list_id = l /\ r.bought_at # Null}

\* C12: GetHistory(l, limit) returns bought rows of list l only, each once,
\* latest purchase first, min(limit, number of bought rows of l) of them, and no
\* row it leaves out was bought later than one it returns; /history asks for 10.
C12_HistoryOrderedAndLimited ==
    /\ HistoryLimit = 10
    /\ \A l \in ListIDs, limit \in 0..HistoryLimit :
          \A o \in GetHistoryResults(items, l, limit) :
             /\ Len(o) = IF limit < Cardinality(Purchased(l)) THEN limit
                         ELSE Cardinality(Purchased(l))
             /\ \A i \in 1..Len(o) : o[i] \in Purchased(l)
             /\ \A i, j \in 1..Len(o) : i # j => o[i] # o[j]
             /\ \A i, j \in 1..Len(o) : i < j => o[i].bought_at[1] >= o[j].bought_at[1]
             /\ \A r \in Purchased(l) :
                   (\A i \in 1..Len(o) : o[i] # r) =>
                   \A i \in 1..Len(o) : o[i].bought_at[1] >= r.bought_at[1]

\* Two rows of a list were bought a second apart, the row added first bought
\* last; a history of limit 1 is that row alone.
C12_Witness ==
    \E l \in ListIDs : \E r1, r2 \in Purchased(l) :
       /\ r1.id < r2.id
       /\ r1.bought_at[1] > r2.bought_at[1]
       /\ GetHistoryResults(items, l, 1) = {<<r1>>}

\* ------------------------------------------------------------------- the Bot

\* --- the functions of package strings and strconv the handlers call

\* unicode.IsSpace on the characters the messages of the model hold.
IsSpace(c) == c \in {" ", "\n", "\t"}

RECURSIVE TrimLeftSpace(_)
TrimLeftSpace(s) ==
    IF Len(s) > 0 /\ IsSpace(SubSeq(s, 1, 1))
    THEN TrimLeftSpace(SubSeq(s, 2, Len(s)))
    ELSE s

\* The longest prefix of s without white space.
RECURSIVE FirstField(_)
FirstField(s) ==
    IF Len(s) = 0 \/ IsSpace(SubSeq(s, 1, 1)) THEN ""
    ELSE SubSeq(s, 1, 1) \o FirstField(SubSeq(s, 2, Len(s)))

\* strings.Fields: the maximal runs of characters that are not white space.
RECURSIVE Fields(_)
Fields(s) ==
    LET t == TrimLeftSpace(s)
        w == FirstField(t)
    IN  IF t = "" THEN <<>>
        ELSE <<w>> \o Fields(SubSeq(t, Len(w) + 1, Len(t)))

\* strings.HasPrefix
HasPrefix(s, prefix) ==
    Len(s) >= Len(prefix) /\ SubSeq(s, 1, Len(prefix)) = prefix

\* strings.Join
RECURSIVE Join(_, _)
Join(elems, sep) ==
    IF Len(elems) = 0 THEN ""
    ELSE IF Len(elems) = 1 THEN elems[1]
    ELSE elems[1] \o sep \o Join(Tail(elems), sep)

Digits == <<"0", "1", "2", "3", "4", "5", "6", "7", "8", "9">>

IsDigit(c) == \E d \in 1..Len(Digits) : Digits[d] = c

DigitValue(c) == (CHOOSE d \in 1..Len(Digits) : Digits[d] = c) - 1

\* The value of a string of decimal digits, most significant first.
RECURSIVE ParseDigits(_, _)
ParseDigits(s, acc) ==
    IF Len(s) = 0 THEN acc
    ELSE ParseDigits(SubSeq(s, 2, Len(s)), 10 * acc + DigitValue(SubSeq(s, 1, 1)))

\* strconv.Atoi as [n, err]: an optional sign, then one or more decimal digits
\* and nothing else. (The texts of the model stay far from the range of int.)
Atoi(s) ==
    LET signed == Len(s) > 0 /\ SubSeq(s, 1, 1) \in {"+", "-"}
        ds     == IF signed THEN SubSeq(s, 2, Len(s)) ELSE s
    IN  IF Len(ds) = 0 \/ \E i \in 1..Len(ds) : ~IsDigit(SubSeq(ds, i, i))
        THEN [n |-> 0, err |-> TRUE]
        ELSE [n |-> IF signed /\ SubSeq(s, 1, 1) = "-"
                       THEN 0 - ParseDigits(ds, 0) ELSE ParseDigits(ds, 0),
              err |-> FALSE]

\* fmt.Sprintf("%d", n)
Itoa(n) == ToString(n)

\* --- the emoji the replies start with, written here by their names

QuestionMark == "[?]"
CrossMark == "[x]"
CheckMark == "[v]"
WavingHand == "[wave]"
Memo == "[memo]"
LightBulb == "[tip]"
ShoppingCart == "[cart]"
Scroll == "[scroll]"

\* --- authorization

\* slices.Contains: a scan of the slice from its first element.
RECURSIVE Contains(_, _)
Contains(s, v) ==
    IF Len(s) = 0 THEN FALSE
    ELSE IF Head(s) = v THEN TRUE
    ELSE Contains(Tail(s), v)

\* Mutant: isAuthorized without the branch for the empty allow-list.
isAuthorizedWithoutAllowAll(allowed, userID) == Contains(allowed, userID)

\* Bot.isAuthorized
isAuthorized(allowed, userID) ==
    IF Len(allowed) = 0 THEN TRUE
    ELSE Contains(allowed, userID)

\* --- the handlers
\*
\* A handler runs against the tables db = [lists, user_sessions, items, itemSeq]
\* at the second t and gives the set of its possible outcomes [db, sent]: the
\* tables it leaves and the SendMessage calls it made, in order. The set has
\* several elements where a query may return its rows in several orders. fault
\* names the method of database.DB that returns an error during the handling,
\* "none" if none does. The error SendMessage returns is dropped by every caller.

Faults == {"none", "ListExists", "CreateList", "SetCurrentList", "GetCurrentList",
           "AddItem", "GetItems", "MarkBought", "GetHistory"}

Tables == [lists |-> lists, user_sessions |-> user_sessions, items |-> items,
           itemSeq |-> itemSeq]

\* b.tg.SendMessage(chatID, text) as the last thing a handler does.
Reply(db, chatID, text) ==
    [db |-> db, sent |-> <<[chat_id |-> chatID, text |-> text]>>]

\* A return without a SendMessage.
NoReply(db) == [db |-> db, sent |-> <<>>]

\* Bot.getCurrentListOrPrompt as [listID, ok, sent].
getCurrentListOrPrompt(db, chatID, userID, fault) ==
    LET r == GetCurrentListReturns(db.user_sessions, userID, fault = "GetCurrentList")
    IN  IF r.err
        THEN [listID |-> "", ok |-> FALSE,
              sent |-> <<[chat_id |-> chatID,
                          text |-> CrossMark \o " Error getting your current list. Please try again."]>>]
        ELSE IF r.listID = ""
        THEN [listID |-> "", ok |-> FALSE,
              sent |-> <<[chat_id |-> chatID,
                          text |-> CrossMark \o " Please select a list first: /set <list_id>"]>>]
        ELSE [listID |-> r.listID, ok |-> TRUE, sent |-> <<>>]

\* Bot.handleSetList
handleSetList(db, t, chatID, userID, args, fault) ==
    IF Len(args) = 0
    THEN {Reply(db, chatID, CrossMark \o " Please specify a list ID.\nUsage: /set <list_id>")}
    ELSE
    LET listID == args[1]
        exists == CountLists(db.lists, listID) > 0
        db1    == IF exists THEN db
                  ELSE [db EXCEPT !.lists = InsertList(@, listID, userID, t)]
    IN  IF fault = "ListExists"
        THEN {Reply(db, chatID, CrossMark \o " Error checking list. Please try again.")}
        ELSE IF ~exists /\ fault = "CreateList"
        THEN {Reply(db, chatID, CrossMark \o " Error creating list. Please try again.")}
        ELSE IF fault = "SetCurrentList"
        THEN {Reply(db1, chatID, CrossMark \o " Error selecting list. Please try again.")}
        ELSE {Reply([db1 EXCEPT !.user_sessions = UpsertSession(@, userID, listID, t)],
                    chatID, CheckMark \o " Selected list: " \o listID)}

\* Mutant: /start is handled without a reply.
handleStartSilent(db, chatID) == {NoReply(db)}

\* Bot.handleStart
handleStart(db, chatID) ==
    {Reply(db, chatID,
           WavingHand \o " Welcome to Shopping Bot!\n\n"
           \o "I help you manage shared shopping lists.\n\n"
           \o "Use /help to see available commands.")}

\* Bot.handleHelp
handleHelp(db, chatID) ==
    {Reply(db, chatID,
           Memo \o " Available commands:\n\n"
           \o "/set <list_id> - Select/create shopping list\n"
           \o "/add <item> - Add item to current list\n"
           \o "/list - Show current shopping list\n"
           \o "/bought <number> - Mark item as bought\n"
           \o "/history - Show recently bought items\n"
           \o "/help - Show this help message\n\n"
           \o LightBulb \o " Tip: List IDs work like passwords - share them with others to collaborate!")}

\* Mutant: handleAdd validates its arguments before it asks for the current list.
handleAddArgsFirst(db, t, chatID, userID, args, fault) ==
    LET cur      == getCurrentListOrPrompt(db, chatID, userID, fault)
        itemName == Join(args, " ")
    IN  IF Len(args) = 0
        THEN {Reply(db, chatID, CrossMark \o " Please specify an item to add.\nUsage: /add <item>")}
        ELSE IF ~cur.ok THEN {[db |-> db, sent |-> cur.sent]}
        ELSE IF fault = "AddItem"
        THEN {Reply(db, chatID, CrossMark \o " Failed to add item. Please try again.")}
        ELSE {Reply([db EXCEPT !.items = InsertItem(@, db.itemSeq, cur.listID, itemName, userID, t),
                               !.itemSeq = @ + 1],
                    chatID, CheckMark \o " Added: " \o itemName)}

\* Bot.handleAdd
handleAdd(db, t, chatID, userID, args, fault) ==
    LET cur      == getCurrentListOrPrompt(db, chatID, userID, fault)
        itemName == Join(args, " ")
    IN  IF ~cur.ok THEN {[db |-> db, sent |-> cur.sent]}
        ELSE IF Len(args) = 0
        THEN {Reply(db, chatID, CrossMark \o " Please specify an item to add.\nUsage: /add <item>")}
        ELSE IF fault = "AddItem"
        THEN {Reply(db, chatID, CrossMark \o " Failed to add item. Please try again.")}
        ELSE {Reply([db EXCEPT !.items = InsertItem(@, db.itemSeq, cur.listID, itemName, userID, t),
                               !.itemSeq = @ + 1],
                    chatID, CheckMark \o " Added: " \o itemName)}

\* The numbered lines of a listing: fmt.Sprintf("%d. %s\n", i+1, item.Name) for
\* the rows from position i on.
RECURSIVE NumberedLines(_, _)
NumberedLines(rows, i) ==
    IF i > Len(rows) THEN ""
    ELSE Itoa(i) \o ". " \o rows[i].name \o "\n" \o NumberedLines(rows, i + 1)

\* Bot.handleList
handleList(db, chatID, userID, fault) ==
    LET cur == getCurrentListOrPrompt(db, chatID, userID, fault)
    IN  IF ~cur.ok THEN {[db |-> db, sent |-> cur.sent]}
        ELSE IF fault = "GetItems"
        THEN {Reply(db, chatID, CrossMark \o " Failed to load shopping list. Please try again.")}
        ELSE {IF Len(rows) = 0
              THEN Reply(db, chatID,
                         Memo \o " Shopping list '" \o cur.listID
                         \o "' is empty.\n\nUse /add to add items.")
              ELSE Reply(db, chatID,
                         ShoppingCart \o " Shopping list '" \o cur.listID \o "':\n\n"
                         \o NumberedLines(rows, 1)
                         \o "\nUse /bought <number> to mark items as bought.") :
              rows \in GetItemsResults(db.items, cur.listID)}

\* Mutant: the error of MarkBought is dropped and the confirmation sent anyway.
handleBoughtRowsIgnoresError(db, t, chatID, userID, args, fault, listID, rows) ==
    LET itemNum == Atoi(args[1])
    IN  IF Len(rows) = 0
        THEN Reply(db, chatID, Memo \o " Shopping list is empty.")
        ELSE IF itemNum.err \/ itemNum.n < 1 \/ itemNum.n > Len(rows)
        THEN Reply(db, chatID,
                   CrossMark \o " Invalid item number. Please use a number between 1 and "
                   \o Itoa(Len(rows)) \o ".")
        ELSE LET item == rows[itemNum.n]
             IN  Reply([db EXCEPT !.items = MarkBoughtUpdate(@, item.id, listID, userID, t)],
                       chatID, CheckMark \o " Marked as bought: " \o item.name)

\* handleBought once GetItems has returned rows.
handleBoughtRows(db, t, chatID, userID, args, fault, listID, rows) ==
    LET itemNum == Atoi(args[1])
    IN  IF Len(rows) = 0
        THEN Reply(db, chatID, Memo \o " Shopping list is empty.")
        ELSE IF itemNum.err \/ itemNum.n < 1 \/ itemNum.n > Len(rows)
        THEN Reply(db, chatID,
                   CrossMark \o " Invalid item number. Please use a number between 1 and "
                   \o Itoa(Len(rows)) \o ".")
        ELSE LET item == rows[itemNum.n]
             IN  IF fault = "MarkBought" \/ MarkBoughtMatches(db.items, item.id, listID) = {}
                 THEN Reply(db, chatID,
                            CrossMark \o " Failed to mark item as bought. Please try again.")
                 ELSE Reply([db EXCEPT !.items = MarkBoughtUpdate(@, item.id, listID, userID, t)],
                            chatID, CheckMark \o " Marked as bought: " \o item.name)

\* Bot.handleBought
handleBought(db, t, chatID, userID, args, fault) ==
    LET cur == getCurrentListOrPrompt(db, chatID, userID, fault)
    IN  IF ~cur.ok THEN {[db |-> db, sent |-> cur.sent]}
        ELSE IF Len(args) = 0
        THEN {Reply(db, chatID, CrossMark \o " Please specify item number.\nUsage: /bought <number>")}
        ELSE IF fault = "GetItems"
        THEN {Reply(db, chatID, CrossMark \o " Failed to load shopping list. Please try again.")}
        ELSE {handleBoughtRows(db, t, chatID, userID, args, fault, cur.listID, rows) :
              rows \in GetItemsResults(db.items, cur.listID)}

\* Bot.handleHistory
handleHistory(db, chatID, userID, fault) ==
    LET cur == getCurrentListOrPrompt(db, chatID, userID, fault)
    IN  IF ~cur.ok THEN {[db |-> db, sent |-> cur.sent]}
        ELSE IF fault = "GetHistory"
        THEN {Reply(db, chatID, CrossMark \o " Failed to load history. Please try again.")}
        ELSE {IF Len(rows) = 0
              THEN Reply(db, chatID,
                         Scroll \o " No purchase history for '" \o cur.listID \o "' yet.")
              ELSE Reply(db, chatID,
                         Scroll \o " Recently bought from '" \o cur.listID \o "':\n\n"
                         \o NumberedLines(rows, 1)) :
              rows \in GetHistoryResults(db.items, cur.listID, HistoryLimit)}

\* Mutant: the switch of handleCommand has no default branch.
handleCommandWithoutDefault(db, t, m, fault) ==
    LET args == Fields(m.text)
    IN  IF Len(args) = 0 THEN {NoReply(db)}
        ELSE CASE args[1] = "/start"   -> handleStart(db, m.chat)
               [] args[1] = "/help"    -> handleHelp(db, m.chat)
               [] args[1] = "/set"     -> handleSetList(db, t, m.chat, m.from, Tail(args), fault)
               [] args[1] = "/add"     -> handleAdd(db, t, m.chat, m.from, Tail(args), fault)
               [] args[1] = "/list"    -> handleList(db, m.chat, m.from, fault)
               [] args[1] = "/bought"  -> handleBought(db, t, m.chat, m.from, Tail(args), fault)
               [] args[1] = "/history" -> handleHistory(db, m.chat, m.from, fault)
               [] OTHER -> {NoReply(db)}

\* Bot.handleCommand
handleCommand(db, t, m, fault) ==
    LET args == Fields(m.text)
    IN  IF Len(args) = 0 THEN {NoReply(db)}
        ELSE CASE args[1] = "/start"   -> handleStart(db, m.chat)
               [] args[1] = "/help"    -> handleHelp(db, m.chat)
               [] args[1] = "/set"     -> handleSetList(db, t, m.chat, m.from, Tail(args), fault)
               [] args[1] = "/add"     -> handleAdd(db, t, m.chat, m.from, Tail(args), fault)
               [] args[1] = "/list"    -> handleList(db, m.chat, m.from, fault)
               [] args[1] = "/bought"  -> handleBought(db, t, m.chat, m.from, Tail(args), fault)
               [] args[1] = "/history" -> handleHistory(db, m.chat, m.from, fault)
               [] OTHER -> {Reply(db, m.chat,
                                  QuestionMark \o " Unknown command. Use /help to see available commands.")}

\* Mutant: handleMessage without the authorization check.
handleMessageWithoutCheck(db, t, m, allowed, fault) ==
    IF m.text = "" THEN {NoReply(db)}
    ELSE IF HasPrefix(m.text, "/") THEN handleCommand(db, t, m, fault)
    ELSE {NoReply(db)}

\* Bot.handleMessage
handleMessage(db, t, m, allowed, fault) ==
    IF m.text = "" THEN {NoReply(db)}
    ELSE IF ~isAuthorized(allowed, m.from) THEN {NoReply(db)}
    ELSE IF HasPrefix(m.text, "/") THEN handleCommand(db, t, m, fault)
    ELSE {NoReply(db)}

\* Bot.handleUpdate, the body of main's loop for one update u: an update without
\* a message decodes to the zero Message, whose ID is 0. Every statement of the
\* handling reads the same second. An /add is handled while the table has room
\* for its row. Written over the tables, the replies and the record of the
\* update; the scenarios add what they record of it.
handleUpdateWrites(u, fault) ==
    \E o \in (IF u.message.message_id # 0
              THEN handleMessage(Tables, now, u.message, allowedUsers, fault)
              ELSE {NoReply(Tables)}) :
        /\ o.db.itemSeq <= MaxItems
        /\ lists' = o.db.lists
        /\ user_sessions' = o.db.user_sessions
        /\ items' = o.db.items
        /\ itemSeq' = o.db.itemSeq
        /\ replies' = o.sent
        /\ lastMsg' = <<u.message>>
        /\ authorized' = IF u.message.message_id # 0 /\ u.message.text # ""
                         THEN <<isAuthorized(allowedUsers, u.message.from)>>
                         ELSE <<>>
        /\ UNCHANGED <<now, allowedUsers, callVars, pollVars>>

\* Bot.handleUpdate for an update that is not part of a scenario.
handleUpdate(u, fault) ==
    /\ handleUpdateWrites(u, fault)
    /\ UNCHANGED scenarioVars

\* --- the bot behind its allow-list

\* The slices parseAllowedUsers can return: any ids, repeated or not.
AllowLists == UNION {[1..n -> Users] : n \in 0..MaxAllowed}

\* The zero Message.
NoMessage == [message_id |-> 0, from |-> 0, chat |-> 0, text |-> ""]

\* Texts of the messages: none, plain text, and commands that write, read and
\* only answer.
GateTexts == {"", "hello", "/set groceries", "/add milk", "/list", "/start"}

\* Updates from private chats, where the chat has the id of the sender.
GateUpdates ==
    {[message |-> NoMessage]} \cup
    {[message |-> [message_id |-> 1, from |-> u, chat |-> u, text |-> x]] :
        u \in Users, x \in GateTexts}

InitGate == InitPoll /\ InitStore /\ InitCalls /\ allowedUsers \in AllowLists

NextGate == \E u \in GateUpdates, f \in Faults : handleUpdate(u, f)

SpecGate == InitGate /\ [][NextGate]_vars

\* ------------------------------------------------------------ the Bot: claims

\* userID is one of the entries of the allow-list.
Listed(allowed, userID) == \E i \in 1..Len(allowed) : allowed[i] = userID

\* The ids asked about: the users, and 0, the id of a sender the update does
\* not name.
AskedIDs == Users \cup {0}

\* The update handled latest carried a message, and this is it.
Handled(msg) == msg # <<>> /\ msg[1].message_id # 0

\* C6: isAuthorized returns true for every id when the allow-list is empty, and
\* for a non-empty allow-list true exactly for the ids that are entries of it;
\* what it returned while a message was handled is that value for the sender;
\* the allow-list never changes, and a message that is not a command, for which
\* the handling past isAuthorized does nothing, leaves the tables as they were
\* and sends nothing.
C6_IsAuthorized ==
    /\ [](/\ \A id \in AskedIDs :
                isAuthorized(allowedUsers, id) =
                    (allowedUsers = <<>> \/ Listed(allowedUsers, id))
          /\ authorized # <<>> =>
                authorized[1] =
                    (allowedUsers = <<>> \/ Listed(allowedUsers, lastMsg[1].from)))
    /\ [][/\ allowedUsers' = allowedUsers
          /\ (Handled(lastMsg') /\ lastMsg'[1].text = "hello") =>
                /\ authorized' # <<>>
                /\ replies' = <<>>
                /\ UNCHANGED <<lists, user_sessions, items, itemSeq>>]_vars

\* The allow-list names two users, the second of them sent a command, and
\* isAuthorized returned true; the first has a session.
C6_Witness ==
    /\ Len(allowedUsers) = 2
    /\ allowedUsers[1] # allowedUsers[2]
    /\ Handled(lastMsg)
    /\ lastMsg[1].from = allowedUsers[2]
    /\ lastMsg[1].text = "/add milk"
    /\ authorized = <<TRUE>>
    /\ replies # <<>>
    /\ \E r \in user_sessions : r.user_id = allowedUsers[1]

\* C7: handling a message whose sender is not authorized, whatever its text,
\* sends no reply and leaves lists, items and sessions as they were.
C7_UnauthorizedIsDropped ==
    [][(/\ Handled(lastMsg')
        /\ allowedUsers # <<>>
        /\ ~Listed(allowedUsers, lastMsg'[1].from)) =>
            /\ replies' = <<>>
            /\ UNCHANGED <<lists, user_sessions, items, itemSeq>>]_vars

\* A user who is not on the allow-list sent /add milk after a listed user had
\* selected a list and added an item: nothing was sent back.
C7_Witness ==
    /\ Handled(lastMsg)
    /\ lastMsg[1].text = "/add milk"
    /\ allowedUsers # <<>>
    /\ ~Listed(allowedUsers, lastMsg[1].from)
    /\ authorized = <<FALSE>>
    /\ replies = <<>>
    /\ items # {}
    /\ \E r \in user_sessions : r.current_list_id = <<"groceries">>

\* ------------------------------------------------- the scripted conversation

\* The conversation of the scenario, in the order user 1 sends it.
Script == <<"/set groceries", "/add milk", "/list", "/bought 1", "/list", "/history">>

\* What the other user sends meanwhile, all of it about a list of their own.
OtherTexts == {"/set party", "/add eggs", "/bought 1", "/list"}

\* A message of a private chat.
PrivateMessage(userID, text) ==
    [message |-> [message_id |-> 1, from |-> userID, chat |-> userID, text |-> text]]

\* The updates that carry the script.
ScriptUpdates == [k \in 1..Len(Script) |-> PrivateMessage(1, Script[k])]

\* The updates of the other user.
OtherUpdates == {PrivateMessage(2, x) : x \in OtherTexts}

\* User 1 sends the next command of the script and the bot handles it; no method
\* of the store fails.
SendScripted ==
    /\ Len(transcript) < Len(Script)
    /\ handleUpdateWrites(ScriptUpdates[Len(transcript) + 1], "none")
    /\ transcript' = Append(transcript, replies')
    /\ UNCHANGED racers

\* User 2 sends a command and the bot handles it.
OtherSends == \E u \in OtherUpdates : handleUpdate(u, "none")

\* The allow-lists that authorize user 1: none configured, user 1 alone, both.
ScenarioAllowLists == {<<>>, <<1>>, <<2, 1>>}

InitScenario ==
    InitPoll /\ InitStore /\ InitCalls /\ allowedUsers \in ScenarioAllowLists

NextScenario == SendScripted \/ OtherSends \/ Tick

SpecScenario == InitScenario /\ [][NextScenario]_vars

\* sub occurs in s.
HasSubstring(s, sub) ==
    \E i \in 1..(Len(s) - Len(sub) + 1) : SubSeq(s, i, i + Len(sub) - 1) = sub

\* The reply the scenario names for its k-th command.
ScenarioReply(k, text) ==
    CASE k = 1 -> text = CheckMark \o " Selected list: groceries"
      [] k = 2 -> text = CheckMark \o " Added: milk"
      [] k = 3 -> /\ HasPrefix(text, ShoppingCart \o " Shopping list 'groceries':")
                  /\ HasSubstring(text, "\n1. milk\n")
                  /\ ~HasSubstring(text, "\n2. ")
      [] k = 4 -> text = CheckMark \o " Marked as bought: milk"
      [] k = 5 -> text = Memo \o " Shopping list 'groceries' is empty.\n\nUse /add to add items."
      [] k = 6 -> /\ HasPrefix(text, Scroll \o " Recently bought from 'groceries':")
                  /\ HasSubstring(text, "\n1. milk\n")
                  /\ ~HasSubstring(text, "\n2. ")

\* C13: on a store that starts empty, the commands /set groceries, /add milk,
\* /list, /bought 1, /list, /history of an authorized user are answered, one
\* reply each and all to that user, with: Selected list: groceries; Added: milk;
\* the list with 1. milk; Marked as bought: milk; the empty-list reply; the
\* history with 1. milk.
C13_Scenario ==
    \A k \in 1..Len(transcript) :
       /\ Len(transcript[k]) = 1
       /\ transcript[k][1].chat_id = 1
       /\ ScenarioReply(k, transcript[k][1].text)

\* The conversation is complete, the clock moved during it, and the other user
\* has a list with an item of their own.
C13_Witness ==
    /\ Len(transcript) = Len(Script)
    /\ now = 1
    /\ \E r \in items : r.name = "milk" /\ r.bought_at = <<1>> /\ r.created_at = 0
    /\ \E r \in items : r.name = "eggs" /\ r.list_id = "party"

\* --------------------------------------------- two /bought handled at once
\*
\* Two processes of the bot on one database file each handle a /bought 1. A
\* handler reaches the database twice, for the rows of GetItems and for the
\* UPDATE of MarkBought, and the other handler may run in between.

RacerIDs == {"A", "B"}

\* args of handleBought for the text /bought 1.
RaceArgs == Tail(Fields("/bought 1"))

\* handleBought up to the return of GetItems, as the set of
\* [pc, listID, rows, sent] it can stop at: "done" with the reply sent, or
\* "snapshot" with the rows it goes on with.
handleBoughtSnapshot(db, chatID, userID, args, fault) ==
    LET cur == getCurrentListOrPrompt(db, chatID, userID, fault)
    IN  IF ~cur.ok
        THEN {[pc |-> "done", listID |-> "", rows |-> <<>>, sent |-> cur.sent]}
        ELSE IF Len(args) = 0
        THEN {[pc |-> "done", listID |-> cur.listID, rows |-> <<>>,
               sent |-> Reply(db, chatID,
                              CrossMark \o " Please specify item number.\nUsage: /bought <number>").sent]}
        ELSE IF fault = "GetItems"
        THEN {[pc |-> "done", listID |-> cur.listID, rows |-> <<>>,
               sent |-> Reply(db, chatID,
                              CrossMark \o " Failed to load shopping list. Please try again.").sent]}
        ELSE {[pc |-> "snapshot", listID |-> cur.listID, rows |-> rows, sent |-> <<>>] :
              rows \in GetItemsResults(db.items, cur.listID)}

\* Handler p runs from its start to the return of GetItems.
BoughtSnapshot(p) ==
    /\ racers[p].pc = "start"
    /\ \E o \in handleBoughtSnapshot(Tables, racers[p].user, racers[p].user, RaceArgs, "none") :
          racers' = [racers EXCEPT ![p] =
                        [pc |-> o.pc, user |-> racers[p].user, listID |-> o.listID,
                         rows |-> o.rows, sent |-> o.sent]]
    /\ UNCHANGED <<storeVars, callVars, botVars, transcript, pollVars>>

\* Handler p runs from the rows it holds to its reply.
BoughtMark(p) ==
    /\ racers[p].pc = "snapshot"
    /\ LET o == handleBoughtRows(Tables, now, racers[p].user, racers[p].user, RaceArgs,
                                 "none", racers[p].listID, racers[p].rows)
       IN  /\ items' = o.db.items
           /\ racers' = [racers EXCEPT ![p].pc = "done", ![p].sent = o.sent]
    /\ UNCHANGED <<lists, user_sessions, itemSeq, now, callVars, botVars, transcript,
                   pollVars>>

\* The rows of items the race starts from: milk, the one active row of
\* groceries, alone or after a row bought before.
RaceItems ==
    {{[id |-> 1, list_id |-> "groceries", name |-> "milk", created_at |-> 0,
       bought_at |-> Null, added_by |-> 1, bought_by |-> Null]},
     {[id |-> 1, list_id |-> "groceries", name |-> "eggs", created_at |-> 0,
       bought_at |-> <<0>>, added_by |-> 2, bought_by |-> <<2>>],
      [id |-> 2, list_id |-> "groceries", name |-> "milk", created_at |-> 0,
       bought_at |-> Null, added_by |-> 1, bought_by |-> Null]}}

\* Both users have selected groceries; either of them sent each /bought 1.
InitRace ==
    /\ InitPoll /\ InitConfig
    /\ call = [op |-> "none"]
    /\ lastSet = [u \in Users |-> <<"groceries">>]
    /\ lastMsg = <<>> /\ authorized = <<>> /\ replies = <<>> /\ transcript = <<>>
    /\ now = 0
    /\ \E c \in Users : lists = {[id |-> "groceries", created_at |-> 0, created_by |-> c]}
    /\ user_sessions = {[user_id |-> u, current_list_id |-> <<"groceries">>,
                         last_updated |-> 0] : u \in Users}
    /\ items \in RaceItems
    /\ itemSeq = Cardinality(items)
    /\ racers \in [RacerIDs -> {[pc |-> "start", user |-> u, listID |-> "", rows |-> <<>>,
                                 sent |-> <<>>] : u \in Users}]

NextRace ==
    \/ \E p \in RacerIDs : BoughtSnapshot(p)
    \/ \E p \in RacerIDs : BoughtMark(p)
    \/ Tick

SpecRace == InitRace /\ [][NextRace]_vars

\* Both handlers are done and each got the active row from GetItems: the second
\* GetItems ran before the first UPDATE.
BothRaced ==
    \A p \in RacerIDs : racers[p].pc = "done" /\ racers[p].rows # <<>>

\* C14: when both /bought 1 took their rows before either marked, one replies
\* with the confirmation for milk, the other with the failure reply, and the
\* history of the list holds milk once, bought by the sender of the one that
\* was confirmed.
C14_OneOfTwoBuys ==
    BothRaced =>
       /\ \E p, q \in RacerIDs :
             /\ p # q
             /\ racers[p].sent = <<[chat_id |-> racers[p].user,
                                    text |-> CheckMark \o " Marked as bought: milk"]>>
             /\ racers[q].sent = <<[chat_id |-> racers[q].user,
                                    text |-> CrossMark \o " Failed to mark item as bought. Please try again."]>>
             /\ \E r \in items : r.name = "milk" /\ r.bought_by = <<racers[p].user>>
       /\ \A o \in GetHistoryResults(items, "groceries", HistoryLimit) :
             Cardinality({i \in 1..Len(o) : o[i].name = "milk"}) = 1
       /\ GetItemsResults(items, "groceries") = {<<>>}

\* Two users raced a second apart for the milk of a list that has a row bought
\* before.
C14_Witness ==
    /\ BothRaced
    /\ racers["A"].user # racers["B"].user
    /\ now = 1
    /\ \E r \in items : r.name = "milk" /\ r.bought_at = <<1>>
    /\ \E r \in items : r.name = "eggs" /\ r.bought_at = <<0>>

\* The step is the UPDATE of handler p, and the row p resolved is no longer
\* active: the other handler bought it after p read its rows.
Conflict(p) ==
    /\ racers[p].pc = "snapshot"
    /\ racers'[p].pc = "done"
    /\ racers[p].rows # <<>>
    /\ MarkBoughtMatches(items, racers[p].rows[1].id, racers[p].listID) = {}

\* What the handler sends when Exec of the UPDATE itself fails.
StoreFailureReply(p) ==
    handleBoughtRows(Tables, now, racers[p].user, racers[p].user, RaceArgs,
                     "MarkBought", racers[p].listID, racers[p].rows).sent

\* C22: a /bought whose conditional update affects no row, because the item it
\* resolved is not active any more, is answered with a message of its own, not
\* with the reply a failed store call gets, and the update is not tried again.
C22_ConflictHasOwnMessage ==
    [][\A p \in RacerIDs : Conflict(p) =>
          /\ Len(racers'[p].sent) = 1
          /\ racers'[p].sent # StoreFailureReply(p)
          /\ items' = items]_vars

\* -------------------------------------------------- the bot and its commands
\*
\* User 1 sends every kind of text, user 2 everything but /set: user 2 is the
\* sender who has not selected a list. Everyone is authorized.

\* The methods of database.DB the handler of a verb calls.
Calls(verb) ==
    CASE verb = "/set"     -> {"ListExists", "CreateList", "SetCurrentList"}
      [] verb = "/add"     -> {"GetCurrentList", "AddItem"}
      [] verb = "/list"    -> {"GetCurrentList", "GetItems"}
      [] verb = "/bought"  -> {"GetCurrentList", "GetItems", "MarkBought"}
      [] verb = "/history" -> {"GetCurrentList", "GetHistory"}
      [] OTHER             -> {}

\* Texts of the messages: every command with and without its argument, tokens
\* that are no command, and texts that do not start with a slash.
BotTexts == {"/start", "/help", "/set", "/set groceries", "/add", "/add milk", "/list",
             "/bought", "/bought 1", "/bought 9", "/history", "/foo", "/LIST", "/",
             " /list", "hello"}

\* What a user sends: user 2 never selects a list.
TextsOf(userID) ==
    IF userID = 1 THEN BotTexts
    ELSE {x \in BotTexts : Fields(x)[1] # "/set"}

\* The faults that can show in the handling of a text: none, or one of the
\* methods its handler calls.
FaultsOf(text) == {"none"} \cup Calls(Fields(text)[1])

\* The updates of a set of texts per user, each with a fault that can show.
Inputs(texts) ==
    UNION {{[update |-> PrivateMessage(u, x), fault |-> f] : f \in FaultsOf(x)} :
           u \in DOMAIN texts, x \in UNION {texts[v] : v \in DOMAIN texts}}

BotInputs ==
    {i \in Inputs([u \in Users |-> TextsOf(u)]) :
        i.update.message.text \in TextsOf(i.update.message.from)}

NextBot == \E i \in BotInputs : handleUpdate(i.update, i.fault)

SpecBot == InitSession /\ [][NextBot]_vars

\* ----------------------------------------- the bot and its commands: claims

\* The first white-space-delimited token of a text, "" if it has none.
Verb(text) == IF Fields(text) = <<>> THEN "" ELSE Fields(text)[1]

\* The tokens handleCommand has a handler for.
KnownVerbs == {"/set", "/add", "/list", "/bought", "/history", "/help", "/start"}

\* The user has no row in user_sessions, or a row whose list reference is NULL.
NoCurrentList(userID) ==
    \A r \in user_sessions : r.user_id = userID => r.current_list_id = Null

SelectListPrompt == CrossMark \o " Please select a list first: /set <list_id>"

UnknownCommandReply ==
    QuestionMark \o " Unknown command. Use /help to see available commands."

\* The step handled a message whose text starts with a slash.
HandledCommand(msg) == Handled(msg) /\ HasPrefix(msg[1].text, "/")

\* C17: /add, /list, /bought and /history of a user without a current list,
\* with or without arguments, are answered with the select-a-list prompt and
\* nothing else, and leave lists, items and sessions as they were; /set of such
\* a user is not answered with the prompt, and when it is answered with
\* Selected list the user's session references the list.
C17_NoListNoOperation ==
    [][(HandledCommand(lastMsg') /\ NoCurrentList(lastMsg'[1].from)) =>
          /\ Verb(lastMsg'[1].text) \in {"/add", "/list", "/bought", "/history"} =>
                /\ replies' = <<[chat_id |-> lastMsg'[1].chat, text |-> SelectListPrompt]>>
                /\ UNCHANGED <<lists, user_sessions, items, itemSeq>>
          /\ Verb(lastMsg'[1].text) = "/set" =>
                /\ Len(replies') = 1
                /\ replies'[1].text # SelectListPrompt
                /\ replies'[1].text = CheckMark \o " Selected list: groceries" =>
                      \E r \in user_sessions' :
                         /\ r.user_id = lastMsg'[1].from
                         /\ r.current_list_id = <<"groceries">>]_vars

\* User 2, whose session row holds NULL, sent /add without an item while the
\* list of user 1 has an item: the reply is the prompt.
C17_Witness ==
    /\ HandledCommand(lastMsg)
    /\ lastMsg[1].from = 2
    /\ lastMsg[1].text = "/add"
    /\ \E r \in user_sessions : r.user_id = 2 /\ r.current_list_id = Null
    /\ replies = <<[chat_id |-> 2, text |-> SelectListPrompt]>>
    /\ \E r \in items : r.list_id = "groceries"

\* C18: handling a message whose text starts with a slash makes one SendMessage
\* call, to the chat of the message, whichever path the handler takes and
\* whichever store method fails; nothing follows the call.
C18_OneReplyPerCommand ==
    [][HandledCommand(lastMsg') =>
          /\ Len(replies') = 1
          /\ replies'[1].chat_id = lastMsg'[1].chat]_vars

\* A /bought 1 failed after the item list was read: one reply, the failure, and
\* the item is still active.
C18_Witness ==
    /\ HandledCommand(lastMsg)
    /\ lastMsg[1].text = "/bought 1"
    /\ replies = <<[chat_id |-> lastMsg[1].chat,
                    text |-> CrossMark \o " Failed to mark item as bought. Please try again."]>>
    /\ \E r \in items : r.bought_at = Null

\* C19 as claimed: any message with a text whose first token is none of the
\* seven commands gets the unknown-command reply and changes nothing.
C19_AnyTextUnknownReply ==
    [][(Handled(lastMsg') /\ lastMsg'[1].text # ""
        /\ Verb(lastMsg'[1].text) \notin KnownVerbs) =>
          /\ replies' = <<[chat_id |-> lastMsg'[1].chat, text |-> UnknownCommandReply]>>
          /\ UNCHANGED <<lists, user_sessions, items, itemSeq>>]_vars

\* C19, amended: a message whose text starts with a slash and whose first token
\* is none of the seven commands, compared by case, gets the unknown-command
\* reply; a message whose text does not start with a slash gets no reply;
\* either leaves lists, items and sessions as they were.
C19_UnknownCommandReply ==
    [][(Handled(lastMsg') /\ lastMsg'[1].text # "") =>
          /\ (HasPrefix(lastMsg'[1].text, "/")
              /\ Verb(lastMsg'[1].text) \notin KnownVerbs) =>
                /\ replies' = <<[chat_id |-> lastMsg'[1].chat, text |-> UnknownCommandReply]>>
                /\ UNCHANGED <<lists, user_sessions, items, itemSeq>>
          /\ ~HasPrefix(lastMsg'[1].text, "/") =>
                /\ replies' = <<>>
                /\ UNCHANGED <<lists, user_sessions, items, itemSeq>>]_vars

\* /LIST of a user whose list has an item got the unknown-command reply.
C19_Witness ==
    /\ Handled(lastMsg)
    /\ lastMsg[1].text = "/LIST"
    /\ replies = <<[chat_id |-> lastMsg[1].chat, text |-> UnknownCommandReply]>>
    /\ \E r \in user_sessions :
          r.user_id = lastMsg[1].from /\ r.current_list_id = <<"groceries">>
    /\ \E r \in items : r.list_id = "groceries" /\ r.bought_at = Null

\* The step handles input i, and the store method named by its fault is
\* reached and fails: the handling differs from the one without the failure.
FailedIn(i) ==
    /\ i.fault # "none"
    /\ lastMsg' = <<i.update.message>>
    /\ handleMessage(Tables, now, i.update.message, allowedUsers, i.fault)
          # handleMessage(Tables, now, i.update.message, allowedUsers, "none")
    /\ handleUpdate(i.update, i.fault)

TryAgain == "Please try again."

\* The list a /set creates before its session write.
CreatedBySet(i) ==
    IF Verb(i.update.message.text) = "/set" /\ i.fault = "SetCurrentList"
    THEN InsertList(lists, Fields(i.update.message.text)[2], i.update.message.from, now)
    ELSE lists

\* C23: when a store method fails during a command, the session lookup
\* included, the command is answered with one reply that asks to try again,
\* and nothing is written after the failure: sessions and items are as before,
\* and lists hold at most the list created before the failing call.
C23_StoreFailureTryAgain ==
    [][\A i \in BotInputs : FailedIn(i) =>
          /\ Len(replies') = 1
          /\ HasSubstring(replies'[1].text, TryAgain)
          /\ UNCHANGED <<user_sessions, items, itemSeq>>
          /\ lists' \in {lists, CreatedBySet(i)}]_vars

\* The replies that report a failure: those that open with the cross mark
\* (store error, missing argument, invalid position, no list selected) and the
\* one /bought sends for a list without active items.
IsFailureReply(text) ==
    \/ HasPrefix(text, CrossMark)
    \/ text = Memo \o " Shopping list is empty."

\* C27: a command that ends with a failure reply leaves lists, items and
\* sessions as they were before it; a /set whose session write fails leaves no
\* list behind that was not there before.
C27_FailureChangesNothing ==
    [][(HandledCommand(lastMsg') /\ Len(replies') = 1
        /\ IsFailureReply(replies'[1].text)) =>
          UNCHANGED <<lists, user_sessions, items, itemSeq>>]_vars

\* ------------------------------------------------------- selecting a list

\* Texts of the /set commands: two lists, and the command without its argument.
SetTexts == {"/set groceries", "/set party", "/set"}

\* Either user selects a list, any number of times, while the clock runs.
SetInputs == Inputs([u \in Users |-> SetTexts])

NextSet ==
    \/ Tick
    \/ \E i \in SetInputs : handleUpdate(i.update, i.fault)

SpecSet == InitSession /\ [][NextSet]_vars

\* The step handled /set L and answered Selected list: L.
Selected(msg, sent, L) ==
    /\ Handled(msg)
    /\ Fields(msg[1].text) = <<"/set", L>>
    /\ sent = <<[chat_id |-> msg[1].chat, text |-> CheckMark \o " Selected list: " \o L]>>

\* The rows of a session table with the time of the last update left out.
WithoutTimes(ss) == {[user_id |-> r.user_id, current_list_id |-> r.current_list_id] : r \in ss}

\* C20: after /set L answered with Selected list, lists holds one row L and the
\* sender's session references L; a list that existed keeps its row, creator
\* and creation time, and its /set is never answered with the creation error;
\* a /set L by a user whose session references L already changes nothing but
\* the time of that session; no other session changes; list ids stay unique and
\* a row of lists, once written, stays as written.
C20_SetIsCreateIfAbsent ==
    /\ [](\A r1, r2 \in lists : r1.id = r2.id => r1 = r2)
    /\ [][\A r \in lists : r \in lists']_vars
    /\ [][\A L \in ListIDs :
            /\ Selected(lastMsg', replies', L) =>
                 /\ Cardinality({r \in lists' : r.id = L}) = 1
                 /\ \E r \in user_sessions' :
                       r.user_id = lastMsg'[1].from /\ r.current_list_id = <<L>>
                 /\ \A r \in user_sessions :
                       r.user_id # lastMsg'[1].from => r \in user_sessions'
                 /\ Cardinality({r \in user_sessions' : r.user_id = lastMsg'[1].from}) = 1
                 /\ (\E r \in lists : r.id = L) => lists' = lists
                 /\ (\E r \in user_sessions :
                        r.user_id = lastMsg'[1].from /\ r.current_list_id = <<L>>) =>
                       /\ lists' = lists
                       /\ WithoutTimes(user_sessions') = WithoutTimes(user_sessions)
                 /\ UNCHANGED <<items, itemSeq>>
            /\ (Handled(lastMsg') /\ Fields(lastMsg'[1].text) = <<"/set", L>>
                /\ \E r \in lists : r.id = L) =>
                 replies'[1].text # CrossMark \o " Error creating list. Please try again."]_vars

\* User 2 selected groceries again, a second after selecting it first; user 1
\* had created the list and has party selected now.
C20_Witness ==
    /\ Selected(lastMsg, replies, "groceries")
    /\ lastMsg[1].from = 2
    /\ now = 1
    /\ \E r \in lists : r.id = "groceries" /\ r.created_by = 1 /\ r.created_at = 0
    /\ \E r \in user_sessions :
          r.user_id = 2 /\ r.current_list_id = <<"groceries">> /\ r.last_updated = 1
    /\ \E r \in user_sessions : r.user_id = 1 /\ r.current_list_id = <<"party">>

\* ------------------------------------------------- buying by position

\* Texts of the messages: two items to add, the listing, and /bought with
\* positions in and out of range, signed, and with an argument that is no
\* number.
BoughtTexts == {"/add milk", "/add eggs", "/list", "/bought 1", "/bought 2", "/bought 3",
                "/bought 0", "/bought -1", "/bought +2", "/bought x"}

\* What the other user sends to the list.
BoughtTextsOfOther == {"/add eggs", "/list", "/bought 1"}

BoughtUpdates ==
    {PrivateMessage(1, x) : x \in BoughtTexts}
    \cup {PrivateMessage(2, x) : x \in BoughtTextsOfOther}

\* Both lists exist, user 1 has selected groceries and user 2 one of the two.
InitBought ==
    /\ InitPoll /\ InitCalls /\ InitConfig
    /\ now = 0
    /\ lists = {[id |-> l, created_at |-> 0, created_by |-> 1] : l \in {"groceries", "party"}}
    /\ \E l \in {"groceries", "party"} :
          user_sessions = {[user_id |-> 1, current_list_id |-> <<"groceries">>,
                            last_updated |-> 0],
                           [user_id |-> 2, current_list_id |-> <<l>>, last_updated |-> 0]}
    /\ items = {}
    /\ itemSeq = 0

NextBought ==
    \/ Tick
    \/ \E u \in BoughtUpdates : handleUpdate(u, "none")

SpecBought == InitBought /\ [][NextBought]_vars

\* The step handled a /bought with an argument, sent by a user whose current
\* list L has an active item.
BoughtHandled(L) ==
    /\ now' = now
    /\ HandledCommand(lastMsg')
    /\ Verb(lastMsg'[1].text) = "/bought"
    /\ Len(Fields(lastMsg'[1].text)) >= 2
    /\ \E r \in user_sessions : r.user_id = lastMsg'[1].from /\ r.current_list_id = <<L>>
    /\ ActiveRows(items, L) # {}

\* The argument of the /bought of the step is a position of the active items.
InRange(L) ==
    LET n == Atoi(Fields(lastMsg'[1].text)[2])
    IN  ~n.err /\ n.n >= 1 /\ n.n <= Cardinality(ActiveRows(items, L))

\* The step wrote the purchase into row r and into no other row.
MarkedOnly(r) ==
    /\ r \in items
    /\ items' = (items \ {r}) \cup {[r EXCEPT !.bought_at = <<now>>,
                                              !.bought_by = <<lastMsg'[1].from>>]}

InvalidNumberReply(n) ==
    CrossMark \o " Invalid item number. Please use a number between 1 and " \o Itoa(n) \o "."

\* The text /list sends for the rows of a list.
ListingOf(L, rows) ==
    ShoppingCart \o " Shopping list '" \o L \o "':\n\n" \o NumberedLines(rows, 1)
    \o "\nUse /bought <number> to mark items as bought."

\* A /bought N with N in range marks the row at position N of one evaluation of
\* the active items, and no other row; any other argument is answered with the
\* invalid-number message and marks nothing.
C21_MarksItemAtPosition ==
    [][\A L \in ListIDs : BoughtHandled(L) =>
          IF InRange(L)
          THEN \E rows \in GetItemsResults(items, L) :
                  MarkedOnly(rows[Atoi(Fields(lastMsg'[1].text)[2]).n])
          ELSE /\ replies' = <<[chat_id |-> lastMsg'[1].chat,
                                text |-> InvalidNumberReply(Cardinality(ActiveRows(items, L)))]>>
               /\ items' = items]_vars

\* A /bought N that follows a /list of the same list, with no message handled
\* in between, marks a row with the name the listing shows on line N.
C21_SameItemAsListed ==
    [][\A L \in ListIDs : (BoughtHandled(L) /\ InRange(L)) =>
          \A shown \in GetItemsResults(items, L) :
             (Handled(lastMsg) /\ replies = <<[chat_id |-> lastMsg[1].chat,
                                               text |-> ListingOf(L, shown)]>>) =>
                \E r \in items :
                   /\ r.name = shown[Atoi(Fields(lastMsg'[1].text)[2]).n].name
                   /\ MarkedOnly(r)]_vars

\* C21: /bought with argument a, sent by a user whose current list has an
\* active item: when a is an integer N between 1 and the number of active
\* items, the command marks exactly the item at position N of the active items
\* as evaluated when it is handled, the item /list shows at position N when
\* nothing changed in between; otherwise it replies with the invalid-number
\* message and marks nothing.
C21_BoughtByPosition == C21_MarksItemAtPosition /\ C21_SameItemAsListed

\* ------------------------------------------------ references between tables

\* PRAGMA foreign_keys of the connection sql.Open("sqlite", path) returns: Open
\* does not set it, and SQLite leaves it off.
ForeignKeysOn == FALSE

\* DELETE FROM lists WHERE id = ? on a database with the schema of createTables:
\* with foreign keys enforced, ON DELETE CASCADE removes the items of the list
\* and ON DELETE SET NULL clears the sessions that reference it; without, the
\* clauses do nothing. No method of database.DB issues the statement.
RemoveList(listID) ==
    /\ \E r \in lists : r.id = listID
    /\ lists' = {r \in lists : r.id # listID}
    /\ items' = IF ForeignKeysOn THEN {r \in items : r.list_id # listID} ELSE items
    /\ user_sessions' =
          IF ForeignKeysOn
          THEN {IF r.current_list_id = <<listID>> THEN [r EXCEPT !.current_list_id = Null]
                ELSE r : r \in user_sessions}
          ELSE user_sessions
    /\ UNCHANGED <<itemSeq, now, callVars, botVars, scenarioVars, pollVars>>

\* Texts of the messages: selecting either list, adding to it, listing it.
RefTexts == {"/set groceries", "/set party", "/add milk", "/list"}

RefUpdates == {PrivateMessage(u, x) : u \in Users, x \in RefTexts}

NextRefs ==
    \/ \E u \in RefUpdates : handleUpdate(u, "none")
    \/ \E l \in ListIDs : RemoveList(l)

SpecRefs == InitSession /\ [][NextRefs]_vars

\* Every list a session or an item names is a row of lists.
NoDanglingReference ==
    /\ \A r \in user_sessions :
          r.current_list_id # Null => \E l \in lists : l.id = r.current_list_id[1]
    /\ \A r \in items : \E l \in lists : l.id = r.list_id

\* C25: no session and no item references a list that does not exist, and a
\* step that removes a list removes the items of the list and clears the
\* reference of every session that held it.
C25_NoReferenceDangles ==
    /\ []NoDanglingReference
    /\ [][\A l \in lists : l \notin lists' =>
             /\ \A r \in items' : r.list_id # l.id
             /\ \A r \in user_sessions' : r.current_list_id # <<l.id>>]_vars

\* ------------------------------------------------- what a command touches

\* Texts of the messages: user 1 stays with groceries, user 2 moves between the
\* two lists; both add to their current list and buy from it.
FrameTexts ==
    [u \in Users |-> IF u = 1 THEN {"/set groceries", "/add milk", "/bought 1"}
                     ELSE {"/set groceries", "/set party", "/add milk", "/bought 1"}]

\* The store answers, or fails where a /set has written its list and not yet
\* the session.
FrameInputs ==
    {i \in Inputs(FrameTexts) :
        /\ i.update.message.text \in FrameTexts[i.update.message.from]
        /\ i.fault \in {"none", "SetCurrentList"}}

NextFrame == \E i \in FrameInputs : handleUpdate(i.update, i.fault)

SpecFrame == InitSession /\ [][NextFrame]_vars

\* The list the session of a user references, <<>> if none.
CurrentListOf(userID) ==
    IF \E r \in user_sessions : r.user_id = userID /\ r.current_list_id # Null
    THEN (CHOOSE r \in user_sessions : r.user_id = userID).current_list_id
    ELSE <<>>

\* C26: handling a command of user u leaves the session rows of every other
\* user as they were, leaves every item outside the list u's session
\* references before the command as it was, writes or adds items only in that
\* list, removes no item, and never changes the list of an item.
C26_CommandTouchesOwnSessionAndList ==
    [][HandledCommand(lastMsg') =>
          LET u == lastMsg'[1].from
          IN  /\ {r \in user_sessions : r.user_id # u} = {r \in user_sessions' : r.user_id # u}
              /\ \A r \in items : <<r.list_id>> # CurrentListOf(u) => r \in items'
              /\ \A r \in items' : r \notin items => <<r.list_id>> = CurrentListOf(u)
              /\ \A r \in items : \E q \in items' : q.id = r.id /\ q.list_id = r.list_id
              /\ \A q \in items' : Cardinality({r \in items' : r.id = q.id}) = 1]_vars

\* User 2 moved from party, where an item of theirs stays, to groceries, the
\* list user 1 has selected and has bought from.
C26_Witness ==
    /\ HandledCommand(lastMsg)
    /\ lastMsg[1].from = 2
    /\ lastMsg[1].text = "/set groceries"
    /\ replies = <<[chat_id |-> 2, text |-> CheckMark \o " Selected list: groceries"]>>
    /\ \A r \in user_sessions : r.current_list_id = <<"groceries">>
    /\ Cardinality(user_sessions) = 2
    /\ \E r \in items : r.list_id = "party" /\ r.added_by = 2 /\ r.bought_at = Null
    /\ \E r \in items : r.list_id = "groceries" /\ r.bought_by = <<1>>

\* ------------------------------------------------- the allow-list setting

\* strings.Split(s, sep) for a separator of one character.
RECURSIVE Split(_, _)
Split(s, sep) ==
    IF \A i \in 1..Len(s) : SubSeq(s, i, i) # sep THEN <<s>>
    ELSE LET i == CHOOSE j \in 1..Len(s) :
                     /\ SubSeq(s, j, j) = sep
                     /\ \A k \in 1..(j - 1) : SubSeq(s, k, k) # sep
         IN  <<SubSeq(s, 1, i - 1)>> \o Split(SubSeq(s, i + 1, Len(s)), sep)

RECURSIVE TrimRightSpace(_)
TrimRightSpace(s) ==
    IF Len(s) > 0 /\ IsSpace(SubSeq(s, Len(s), Len(s)))
    THEN TrimRightSpace(SubSeq(s, 1, Len(s) - 1))
    ELSE s

\* strings.TrimSpace
TrimSpace(s) == TrimRightSpace(TrimLeftSpace(s))

\* strconv.ParseInt(s, 10, 64): an optional sign and decimal digits. The
\* settings below stay far inside the 64-bit range.
ParseInt(s) == Atoi(s)

\* The loop of parseAllowedUsers over the parts: blank parts and parts that do
\* not parse are skipped, the others appended.
RECURSIVE ParseParts(_)
ParseParts(parts) ==
    IF parts = <<>> THEN <<>>
    ELSE LET idStr == TrimSpace(Head(parts))
             id    == ParseInt(idStr)
         IN  IF idStr = "" \/ id.err THEN ParseParts(Tail(parts))
             ELSE <<id.n>> \o ParseParts(Tail(parts))

\* parseAllowedUsers
parseAllowedUsers(usersStr) ==
    IF usersStr = "" THEN <<>>
    ELSE ParseParts(Split(usersStr, ","))

\* Values of ALLOWED_USERS: unset, well-formed, padded, with blank entries and
\* with entries that are no integers.
AllowedSettings == {"", "1", "2", "1,2", " 1 , 2 ", "3", "+1", "1,abc", "2,,", "abc",
                    "1.5", ",", " ", "x,y"}

\* config.Load has read ALLOWED_USERS and NewBot holds what parseAllowedUsers
\* made of it.
InitAllowed ==
    /\ InitPoll /\ InitStore
    /\ lastSet = [u \in Users |-> <<>>]
    /\ lastMsg = <<>> /\ authorized = <<>> /\ replies = <<>>
    /\ transcript = <<>> /\ racers = <<>>
    /\ \E s \in AllowedSettings :
          /\ call = [op |-> "parseAllowedUsers", usersStr |-> s]
          /\ allowedUsers = parseAllowedUsers(s)

NextAllowed == \E u \in GateUpdates : handleUpdate(u, "none")

SpecAllowed == InitAllowed /\ [][NextAllowed]_vars

\* C28: with a setting that is not empty, a message of a user whose id is
\* none of the ids the setting names is not authorized, whatever else the
\* setting holds: isAuthorized returns false for it, nothing is sent and
\* nothing is written.
C28_SettingNeverOpens ==
    /\ [](\A id \in AskedIDs :
             (call.usersStr # "" /\ ~Listed(parseAllowedUsers(call.usersStr), id)) =>
                ~isAuthorized(allowedUsers, id))
    /\ [][(/\ Handled(lastMsg')
           /\ lastMsg'[1].text # ""
           /\ call.usersStr # ""
           /\ ~Listed(parseAllowedUsers(call.usersStr), lastMsg'[1].from)) =>
              /\ authorized' = <<FALSE>>
              /\ replies' = <<>>
              /\ UNCHANGED <<lists, user_sessions, items, itemSeq>>]_vars

=============================================================================
